---- MODULE Spec2Model ----
(***************************************************************************)
(* Model of src/ac3.py: a Sudoku solver that prunes the cells' domains     *)
(* with AC-3 (SudokuCSP.ac3, SudokuCSP.revise) and, when propagation alone *)
(* leaves a domain with several values, runs a depth-first search          *)
(* (SudokuCSP.backtrack) with the MRV and LCV heuristics.                  *)
(*                                                                         *)
(* The source fixes the grid to 9 x 9 with 3 x 3 sub-blocks.  The model    *)
(* keeps the code's structure on a grid scaled down to 4 x 4 with 2 x 2    *)
(* sub-blocks, so that TLC can enumerate input grids: the block side is    *)
(* BoxSize, and every 9, 3 and 81 of the source is written N, BoxSize and  *)
(* N * N.  A cell then has 7 neighbours instead of 20, and the initial     *)
(* worklist 16 * 7 = 112 arcs instead of 81 * 20 = 1620.                   *)
(***************************************************************************)
EXTENDS Integers, Sequences, FiniteSets, TLC

\* Side of a sub-block: the 3 of the source (line 37), scaled down to 2.
\* It is the model's stand-in for a constant of the program, not a bound of
\* the exploration.
BoxSize == 2

\* Side of the grid: the 9 of the source (range(9)), here 4.
N == BoxSize * BoxSize

\* The input grids are the reference grid with all cells blanked except one
\* row-major run of at most MaxClues cells, and then at most one cell
\* (anywhere) overwritten with an arbitrary value.
MaxClues == 3

\* The any-order specification pops the worklist at one fixed position other
\* than the front: up to the MaxPick-th behind the front arc, or up to the
\* MaxPick-th from the back.
MaxPick == 1

VARIABLES
    puzzle,         \* SudokuCSP.puzzle: the input grid, 0 for an empty cell
    domains,        \* SudokuCSP.domains: cell -> set of values
    queue,          \* ac3's local deque of arcs (xi, xj)
    queue_lengths,  \* ac3's local list of worklist sizes
    pick,           \* where ac3 pops the worklist: <<"front", 1>> is popleft
    ac3_result,     \* the flag ac3 returned
    assignment,     \* backtrack's dict, 0 for a cell that is not a key
    frames,         \* the call stack of backtrack: var, the values left to
                    \* try, and the assignment the call was entered with
    mode,           \* where the search stands: "call", "loop" or "ret"
    retval,         \* what the backtrack call that just returned gave back
    bt_calls,       \* how often backtracking_search was invoked
    removals,       \* how often backtrack ran del assignment[var]
    solved_puzzle,  \* the grid solve_sudoku returns
    returned,       \* "pending", "grid" or "None": what solve_sudoku returned
    pc              \* position in solve_sudoku

vars == <<puzzle, domains, queue, queue_lengths, pick, ac3_result, assignment,
          frames, mode, retval, bt_calls, removals, solved_puzzle, returned, pc>>

----------------------------------------------------------------------------
\* The grid and the constraint graph

Cells == (0 .. N - 1) \X (0 .. N - 1)

Values == 1 .. N

\* dict iteration order of self.domains: row-major (insertion order).
CellSeq == [k \in 1 .. N * N |-> <<(k - 1) \div N, (k - 1) % N>>]

\* Position of a cell in row-major order.
CellIndex(c) == c[1] * N + c[2] + 1

\* The elements of a set of cells as a list.  Python leaves the iteration
\* order of a set open; the model takes row-major order.
CellsInOrder(S) == SelectSeq(CellSeq, LAMBDA c : c \in S)

RowNeighbors(i, j) == {<<i, k>> : k \in (0 .. N - 1) \ {j}}

ColNeighbors(i, j) == {<<k, j>> : k \in (0 .. N - 1) \ {i}}

\* Mutant: the loop over the block's rows stops one row early.
BoxNeighborsShortRange(i, j) ==
    LET start_row == BoxSize * (i \div BoxSize)
        start_col == BoxSize * (j \div BoxSize)
    IN  {rc \in (start_row .. start_row + BoxSize - 2)
                    \X (start_col .. start_col + BoxSize - 1) : rc # <<i, j>>}

BoxNeighbors(i, j) ==
    LET start_row == BoxSize * (i \div BoxSize)
        start_col == BoxSize * (j \div BoxSize)
    IN  {rc \in (start_row .. start_row + BoxSize - 1)
                    \X (start_col .. start_col + BoxSize - 1) : rc # <<i, j>>}

initialize_neighbors ==
    [c \in Cells |-> RowNeighbors(c[1], c[2]) \cup ColNeighbors(c[1], c[2])
                        \cup BoxNeighbors(c[1], c[2])]

neighbors == initialize_neighbors

initialize_domains(p) ==
    [c \in Cells |-> IF p[c] = 0 THEN Values ELSE {p[c]}]

----------------------------------------------------------------------------
\* AC-3

constraint_satisfied(x, y) == x # y

\* Mutant: the flag is set whether or not a value was removed.
reviseAlwaysRevised(D, xi, xj) ==
    LET removed == {x \in D[xi] :
                        ~ \E y \in D[xj] : constraint_satisfied(x, y)}
    IN  [domains |-> [D EXCEPT ![xi] = D[xi] \ removed],
         revised |-> TRUE]

\* Mutant: the pruned set is stored under xj.
reviseWritesXj(D, xi, xj) ==
    LET removed == {x \in D[xi] :
                        ~ \E y \in D[xj] : constraint_satisfied(x, y)}
    IN  [domains |-> [D EXCEPT ![xj] = D[xi] \ removed],
         revised |-> removed # {}]

\* Mutant: all() for any(): x goes when some y of xj conflicts with it.
reviseAllForAny(D, xi, xj) ==
    LET removed == {x \in D[xi] :
                        ~ \A y \in D[xj] : constraint_satisfied(x, y)}
    IN  [domains |-> [D EXCEPT ![xi] = D[xi] \ removed],
         revised |-> removed # {}]

\* revise(xi, xj) on the domain store D: the new store and the flag returned.
revise(D, xi, xj) ==
    LET removed == {x \in D[xi] :
                        ~ \E y \in D[xj] : constraint_satisfied(x, y)}
    IN  [domains |-> [D EXCEPT ![xi] = D[xi] \ removed],
         revised |-> removed # {}]

RECURSIVE Flatten(_)
Flatten(ss) == IF ss = <<>> THEN <<>> ELSE Head(ss) \o Flatten(Tail(ss))

\* The arcs (x, c) for x in S, in iteration order.
ArcsInto(S, c) ==
    LET xs == CellsInOrder(S) IN [k \in 1 .. Len(xs) |-> <<xs[k], c>>]

\* The arcs (c, x) for x in S, in iteration order.
ArcsFrom(c, S) ==
    LET xs == CellsInOrder(S) IN [k \in 1 .. Len(xs) |-> <<c, xs[k]>>]

\* deque([(xi, xj) for xi in self.domains for xj in self.neighbors[xi]])
InitialQueue ==
    Flatten([k \in 1 .. N * N |-> ArcsFrom(CellSeq[k], neighbors[CellSeq[k]])])

\* The list q without its k-th element.
RemoveAt(q, k) == SubSeq(q, 1, k - 1) \o SubSeq(q, k + 1, Len(q))

\* Mutant: the arcs are appended as (xi, xk).
RequeuedSwapped(xi, xj) == ArcsFrom(xi, neighbors[xi] \ {xj})

\* Mutant: only the first of the arcs is appended.
RequeuedFirstOnly(xi, xj) == SubSeq(ArcsInto(neighbors[xi] \ {xj}, xi), 1, 1)

\* The arcs appended after a revise of (xi, xj) that removed a value.
Requeued(xi, xj) == ArcsInto(neighbors[xi] \ {xj}, xi)

\* Mutant: the empty domain is not looked for after a revise.
Ac3IterationNoEmptyCheck(D, q, k) ==
    LET xi == q[k][1]
        xj == q[k][2]
        rest == RemoveAt(q, k)
        r == revise(D, xi, xj)
    IN  IF r.revised
        THEN [domains |-> r.domains,
              queue |-> rest \o Requeued(xi, xj), failed |-> FALSE]
        ELSE [domains |-> r.domains, queue |-> rest, failed |-> FALSE]

\* One iteration of the while loop, popping the k-th arc (k = 1: popleft).
\* Gives the store, the worklist and how the iteration ends.
Ac3Iteration(D, q, k) ==
    LET xi == q[k][1]
        xj == q[k][2]
        rest == RemoveAt(q, k)
        r == revise(D, xi, xj)
    IN  IF r.revised
        THEN IF r.domains[xi] = {}
             THEN [domains |-> r.domains, queue |-> rest, failed |-> TRUE]
             ELSE [domains |-> r.domains,
                   queue |-> rest \o Requeued(xi, xj), failed |-> FALSE]
        ELSE [domains |-> r.domains, queue |-> rest, failed |-> FALSE]

\* Mutant: the dict is iterated over its keys, the (i, j) tuples.
is_solvedOverKeys(D) == \A c \in Cells : Len(c) = 1

is_solved(D) == \A c \in Cells : Cardinality(D[c]) = 1

\* next(iter(self.domains[(i, j)])): the first element the set yields.
get_solution(D) == [c \in Cells |-> CHOOSE x \in D[c] : TRUE]

----------------------------------------------------------------------------
\* Backtracking search

Assigned(a) == {c \in Cells : a[c] # 0}

\* Mutant: the search stops one cell short.
AssignmentCompleteOffByOne(a) == Cardinality(Assigned(a)) = N * N - 1

\* len(assignment) == 81
AssignmentComplete(a) == Cardinality(Assigned(a)) = N * N

EmptyAssignment == [c \in Cells |-> 0]

\* Mutant: of the cells with the smallest domain the last one is taken.
select_unassigned_variableLastOfTies(D, a) ==
    LET unassigned_variables == Cells \ Assigned(a)
    IN  CHOOSE v \in unassigned_variables :
            \A w \in unassigned_variables :
                \/ Cardinality(D[v]) < Cardinality(D[w])
                \/ /\ Cardinality(D[v]) = Cardinality(D[w])
                   /\ CellIndex(v) >= CellIndex(w)

\* min() keeps the first of the smallest, and the list is in row-major order.
select_unassigned_variable(D, a) ==
    LET unassigned_variables == Cells \ Assigned(a)
    IN  CHOOSE v \in unassigned_variables :
            \A w \in unassigned_variables :
                \/ Cardinality(D[v]) < Cardinality(D[w])
                \/ /\ Cardinality(D[v]) = Cardinality(D[w])
                   /\ CellIndex(v) <= CellIndex(w)

\* Mutant: only the neighbours in the same row are looked at.
is_consistentRowOnly(var, value, a) ==
    ~ \E neighbor \in RowNeighbors(var[1], var[2]) :
            neighbor \in Assigned(a) /\ a[neighbor] = value

\* No neighbour that is a key of the assignment holds the value.
is_consistent(var, value, a) ==
    ~ \E neighbor \in neighbors[var] :
            neighbor \in Assigned(a) /\ a[neighbor] = value

RECURSIVE SumOver(_, _)
SumOver(S, f) ==
    IF S = {} THEN 0
    ELSE LET x == CHOOSE y \in S : TRUE IN f[x] + SumOver(S \ {x}, f)

count_constraints(D, var, value, a) ==
    SumOver(neighbors[var] \ Assigned(a),
            [n \in Cells |->
                Cardinality({nv \in D[n] : ~ constraint_satisfied(value, nv)})])

\* Insert v into the list vs, sorted by key, after the entries of equal key.
RECURSIVE InsertByKey(_, _, _)
InsertByKey(vs, v, key) ==
    IF vs = <<>> THEN <<v>>
    ELSE IF key[v] < key[Head(vs)] THEN <<v>> \o vs
         ELSE <<Head(vs)>> \o InsertByKey(Tail(vs), v, key)

RECURSIVE StableSort(_, _)
StableSort(vs, key) ==
    IF vs = <<>> THEN <<>>
    ELSE InsertByKey(StableSort(SubSeq(vs, 1, Len(vs) - 1), key),
                     vs[Len(vs)], key)

\* Mutant: only the least constraining value is kept.
least_constraining_valuesFirstOnly(D, var, a) ==
    LET values == SelectSeq([k \in 1 .. N |-> k], LAMBDA v : v \in D[var])
    IN  SubSeq(StableSort(values,
                   [v \in Values |-> count_constraints(D, var, v, a)]), 1, 1)

\* list(self.domains[var]): the values in ascending order, then a stable sort.
least_constraining_values(D, var, a) ==
    LET values == SelectSeq([k \in 1 .. N |-> k], LAMBDA v : v \in D[var])
    IN  StableSort(values,
                   [v \in Values |-> count_constraints(D, var, v, a)])

----------------------------------------------------------------------------
\* Input grids

\* A valid filled grid for every BoxSize.
ReferenceGrid ==
    [c \in Cells |->
        ((BoxSize * (c[1] % BoxSize) + (c[1] \div BoxSize) + c[2]) % N) + 1]

ZeroGrid == [c \in Cells |-> 0]

\* The reference grid with only the cells of K kept as clues.
Masked(K) == [c \in Cells |-> IF c \in K THEN ReferenceGrid[c] ELSE 0]

\* The runs of at most maxClues consecutive cells in row-major order.
ClueRuns(maxClues) ==
    {{CellSeq[k] : k \in ab[1] .. ab[2]} :
        ab \in {xy \in (1 .. N * N) \X (0 .. N * N) :
                    xy[2] - xy[1] + 1 \in 0 .. maxClues}}

\* The grid p with the cell c given the value v.
Altered(p, c, v) == [p EXCEPT ![c] = v]

PuzzleFamily(maxClues) ==
    LET masks == {Masked(K) : K \in ClueRuns(maxClues)}
    IN  masks \cup {Altered(p, cv[1], cv[2]) :
                        p \in masks, cv \in Cells \X Values}

Puzzles == PuzzleFamily(MaxClues)

----------------------------------------------------------------------------
\* solve_sudoku

Init ==
    /\ puzzle \in Puzzles
    /\ domains = initialize_domains(puzzle)
    /\ queue = InitialQueue
    /\ queue_lengths = <<>>
    /\ pick = <<"front", 1>>
    /\ ac3_result = FALSE
    /\ assignment = EmptyAssignment
    /\ frames = <<>>
    /\ mode = "idle"
    /\ retval = "None"
    /\ bt_calls = 0
    /\ removals = 0
    /\ solved_puzzle = ZeroGrid
    /\ returned = "pending"
    /\ pc = "ac3"

\* One iteration of ac3's loop that pops the k-th arc of the worklist.
Ac3StepAt(k) ==
    /\ pc = "ac3"
    /\ queue # <<>>
    /\ k \in 1 .. Len(queue)
    /\ LET it == Ac3Iteration(domains, queue, k)
       IN  /\ domains' = it.domains
           /\ queue' = it.queue
           /\ queue_lengths' = Append(queue_lengths, Len(queue))
           /\ IF it.failed
              THEN ac3_result' = FALSE /\ pc' = "ac3_returned"
              ELSE ac3_result' = ac3_result /\ pc' = "ac3"
    /\ UNCHANGED <<puzzle, pick, assignment, frames, mode, retval, bt_calls,
                   removals,
                   solved_puzzle, returned>>

\* ac3 as written: queue.popleft().
Ac3Step == Ac3StepAt(1)

\* The worklist is empty: ac3 returns True.
Ac3Success ==
    /\ pc = "ac3"
    /\ queue = <<>>
    /\ ac3_result' = TRUE
    /\ pc' = "ac3_returned"
    /\ UNCHANGED <<puzzle, domains, queue, queue_lengths, pick, assignment,
                   frames, mode, retval, bt_calls, removals, solved_puzzle, returned>>

\* ac3 reported failure: solve_sudoku returns None.
SolveAc3Failed ==
    /\ pc = "ac3_returned"
    /\ ~ ac3_result
    /\ returned' = "None"
    /\ pc' = "done"
    /\ UNCHANGED <<puzzle, domains, queue, queue_lengths, pick, ac3_result,
                   assignment, frames, mode, retval, bt_calls, removals, solved_puzzle>>

\* Every domain is a singleton: solve_sudoku returns get_solution().
SolveByAc3 ==
    /\ pc = "ac3_returned"
    /\ ac3_result
    /\ is_solved(domains)
    /\ solved_puzzle' = get_solution(domains)
    /\ returned' = "grid"
    /\ pc' = "done"
    /\ UNCHANGED <<puzzle, domains, queue, queue_lengths, pick, ac3_result,
                   assignment, frames, mode, retval, bt_calls,
                   removals>>

\* Otherwise solve_sudoku calls backtracking_search, that is backtrack({}).
SolveStartSearch ==
    /\ pc = "ac3_returned"
    /\ ac3_result
    /\ ~ is_solved(domains)
    /\ bt_calls' = bt_calls + 1
    /\ assignment' = EmptyAssignment
    /\ frames' = <<>>
    /\ mode' = "call"
    /\ pc' = "search"
    /\ UNCHANGED <<puzzle, domains, queue, queue_lengths, pick, ac3_result,
                   retval, removals, solved_puzzle, returned>>

\* Entry of backtrack: a complete assignment is returned, otherwise the
\* variable is selected and its values are ordered.
BacktrackEnter ==
    /\ pc = "search"
    /\ mode = "call"
    /\ IF AssignmentComplete(assignment)
       THEN /\ retval' = "assignment"
            /\ mode' = "ret"
            /\ frames' = frames
       ELSE LET var == select_unassigned_variable(domains, assignment)
            IN  /\ frames' = Append(frames,
                       [var |-> var,
                        values |-> least_constraining_values(domains, var,
                                                             assignment),
                        entry |-> assignment])
                /\ mode' = "loop"
                /\ retval' = retval
    /\ UNCHANGED <<puzzle, domains, queue, queue_lengths, pick, ac3_result,
                   assignment, bt_calls, removals, solved_puzzle, returned, pc>>

\* Mutant: committing a value narrows the cell's domain to that value.
BacktrackLoopPrunes ==
    /\ pc = "search"
    /\ mode = "loop"
    /\ LET top == frames[Len(frames)]
       IN  IF top.values = <<>>
           THEN /\ frames' = SubSeq(frames, 1, Len(frames) - 1)
                /\ retval' = "None"
                /\ mode' = "ret"
                /\ assignment' = assignment
                /\ domains' = domains
           ELSE LET value == Head(top.values)
                IN  /\ frames' = [frames EXCEPT
                                    ![Len(frames)].values = Tail(top.values)]
                    /\ retval' = retval
                    /\ IF is_consistent(top.var, value, assignment)
                       THEN /\ assignment' =
                                    [assignment EXCEPT ![top.var] = value]
                            /\ domains' =
                                    [domains EXCEPT ![top.var] = {value}]
                            /\ mode' = "call"
                       ELSE /\ assignment' = assignment
                            /\ domains' = domains
                            /\ mode' = "loop"
    /\ UNCHANGED <<puzzle, queue, queue_lengths, pick, ac3_result, bt_calls,
                   removals, solved_puzzle, returned, pc>>

\* One iteration of the for loop of the innermost call, or its end.
BacktrackLoop ==
    /\ pc = "search"
    /\ mode = "loop"
    /\ LET top == frames[Len(frames)]
       IN  IF top.values = <<>>
           THEN /\ frames' = SubSeq(frames, 1, Len(frames) - 1)
                /\ retval' = "None"
                /\ mode' = "ret"
                /\ assignment' = assignment
           ELSE LET value == Head(top.values)
                IN  /\ frames' = [frames EXCEPT
                                    ![Len(frames)].values = Tail(top.values)]
                    /\ retval' = retval
                    /\ IF is_consistent(top.var, value, assignment)
                       THEN /\ assignment' =
                                    [assignment EXCEPT ![top.var] = value]
                            /\ mode' = "call"
                       ELSE /\ assignment' = assignment
                            /\ mode' = "loop"
    /\ UNCHANGED <<puzzle, domains, queue, queue_lengths, pick, ac3_result,
                   bt_calls, removals, solved_puzzle, returned, pc>>

\* Mutant: the commitment is not deleted after a failed recursive call.
BacktrackReturnNoDel ==
    /\ pc = "search"
    /\ mode = "ret"
    /\ frames # <<>>
    /\ IF retval # "None"
       THEN /\ frames' = SubSeq(frames, 1, Len(frames) - 1)
            /\ mode' = "ret"
       ELSE /\ mode' = "loop"
            /\ frames' = frames
    /\ UNCHANGED <<puzzle, domains, queue, queue_lengths, pick, ac3_result,
                   assignment, retval, bt_calls, removals, solved_puzzle,
                   returned, pc>>

\* A recursive call came back to its caller's loop body (lines 127-132).
BacktrackReturn ==
    /\ pc = "search"
    /\ mode = "ret"
    /\ frames # <<>>
    /\ LET top == frames[Len(frames)]
       IN  IF retval # "None"
           THEN /\ frames' = SubSeq(frames, 1, Len(frames) - 1)
                /\ mode' = "ret"
                /\ assignment' = assignment
                /\ removals' = removals
           ELSE /\ assignment' = [assignment EXCEPT ![top.var] = 0]
                /\ mode' = "loop"
                /\ frames' = frames
                /\ removals' = removals + 1
    /\ UNCHANGED <<puzzle, domains, queue, queue_lengths, pick, ac3_result,
                   retval, bt_calls, solved_puzzle, returned, pc>>

\* backtracking_search came back to solve_sudoku (lines 147-151).
SolveSearchReturned ==
    /\ pc = "search"
    /\ mode = "ret"
    /\ frames = <<>>
    /\ IF retval # "None" /\ Assigned(assignment) # {}
       THEN /\ solved_puzzle' = [c \in Cells |-> assignment[c]]
            /\ returned' = "grid"
       ELSE /\ solved_puzzle' = solved_puzzle
            /\ returned' = "None"
    /\ mode' = "idle"
    /\ pc' = "done"
    /\ UNCHANGED <<puzzle, domains, queue, queue_lengths, pick, ac3_result,
                   assignment, frames, retval, bt_calls,
                   removals>>

Next ==
    \/ Ac3Step
    \/ Ac3Success
    \/ SolveAc3Failed
    \/ SolveByAc3
    \/ SolveStartSearch
    \/ BacktrackEnter
    \/ BacktrackLoop
    \/ BacktrackReturn
    \/ SolveSearchReturned

Spec == Init /\ [][Next]_vars

----------------------------------------------------------------------------
\* AC-3 with the arcs taken in another order

\* The positions the worklist is popped at instead of the front.
Disciplines ==
    ({"front"} \X (2 .. MaxPick + 1)) \cup ({"back"} \X (1 .. MaxPick))

\* The index of the arc popped from the worklist q under the discipline d.
PopIndex(q, d) ==
    IF d[1] = "front"
    THEN (IF d[2] <= Len(q) THEN d[2] ELSE Len(q))
    ELSE (IF Len(q) - d[2] + 1 >= 1 THEN Len(q) - d[2] + 1 ELSE 1)

InitAnyOrder ==
    /\ puzzle \in Puzzles
    /\ domains = initialize_domains(puzzle)
    /\ queue = InitialQueue
    /\ queue_lengths = <<>>
    /\ pick \in Disciplines
    /\ ac3_result = FALSE
    /\ assignment = EmptyAssignment
    /\ frames = <<>>
    /\ mode = "idle"
    /\ retval = "None"
    /\ bt_calls = 0
    /\ removals = 0
    /\ solved_puzzle = ZeroGrid
    /\ returned = "pending"
    /\ pc = "ac3"

\* One iteration of ac3's loop that pops the arc at the run's position.
Ac3StepAnyOrder ==
    /\ queue # <<>>
    /\ Ac3StepAt(PopIndex(queue, pick))

NextAnyOrder ==
    \/ Ac3StepAnyOrder
    \/ Ac3Success

SpecAnyOrder == InitAnyOrder /\ [][NextAnyOrder]_vars

\* Neighbours of a cell: the others of its row, of its column, and those of
\* its sub-block in neither (20 on the 9 x 9 grid).
NeighboursPerCell == 2 * (N - 1) + (BoxSize - 1) * (BoxSize - 1)

\* Cells times neighbours per cell (81 * 20 = 1620 on the 9 x 9 grid).
MaxArcs == N * N * NeighboursPerCell

\* No run of the loop has more iterations: every iteration pops an arc, and
\* arcs are appended only when one of the N * N * N values is removed.
IterationBound == MaxArcs + (NeighboursPerCell - 1) * N * N * N

\* The while loop of ac3 advanced by one iteration (popleft), or by its
\* return when the worklist is empty; a run that has returned stays put.
Ac3Advance(st) ==
    IF st.returned THEN st
    ELSE IF st.queue = <<>> THEN [st EXCEPT !.returned = TRUE, !.result = TRUE]
    ELSE LET it == Ac3Iteration(st.domains, st.queue, 1)
         IN  [domains |-> it.domains,
              queue |-> it.queue,
              queue_lengths |-> Append(st.queue_lengths, Len(st.queue)),
              returned |-> it.failed,
              result |-> FALSE]

\* Ac3Advance n times.
RECURSIVE Ac3Repeat(_, _)
Ac3Repeat(st, n) ==
    IF n = 0 THEN st
    ELSE IF n = 1 THEN Ac3Advance(st)
    ELSE LET half == Ac3Repeat(st, n \div 2)
         IN  IF half.returned THEN half
             ELSE Ac3Repeat(half, n - n \div 2)

\* ac3 run to its end on the store D: the flag and the list it returns, and
\* the store it leaves behind.
ac3(D) ==
    Ac3Repeat([domains |-> D, queue |-> InitialQueue, queue_lengths |-> <<>>,
               returned |-> FALSE, result |-> FALSE],
              IterationBound + 1)

----------------------------------------------------------------------------
\* What the claims speak of

RowUnits == {{<<i, j>> : j \in 0 .. N - 1} : i \in 0 .. N - 1}

ColUnits == {{<<i, j>> : i \in 0 .. N - 1} : j \in 0 .. N - 1}

BoxUnits ==
    {{c \in Cells : c[1] \div BoxSize = bi /\ c[2] \div BoxSize = bj} :
        <<bi, bj>> \in (0 .. BoxSize - 1) \X (0 .. BoxSize - 1)}

Units == RowUnits \cup ColUnits \cup BoxUnits

\* Two different cells of one row, column or sub-block.
Neighbouring(c, d) ==
    /\ c # d
    /\ \/ c[1] = d[1]
       \/ c[2] = d[2]
       \/ /\ c[1] \div BoxSize = d[1] \div BoxSize
          /\ c[2] \div BoxSize = d[2] \div BoxSize

\* Every row, column and sub-block holds each value exactly once.
ValidGrid(g) ==
    \A U \in Units : \A v \in Values :
        Cardinality({c \in U : g[c] = v}) = 1

KeepsClues(p, g) == \A c \in Cells : p[c] # 0 => g[c] = p[c]

\* The cells from the k-th on filled in every way that gives no two
\* neighbouring cells the same value.
RECURSIVE Fill(_, _)
Fill(g, k) ==
    IF k > N * N THEN {g}
    ELSE LET c == CellSeq[k]
             free(v) == \A d \in Cells : Neighbouring(c, d) => g[d] # v
         IN  IF g[c] # 0
             THEN IF free(g[c]) THEN Fill(g, k + 1) ELSE {}
             ELSE UNION {Fill([g EXCEPT ![c] = v], k + 1) :
                            v \in {w \in Values : free(w)}}

\* The valid completions of the input grid p.
Completions(p) == Fill(p, 1)

\* Two neighbouring clues hold the same value.
DirectDuplicate(p) ==
    \E c, d \in Cells : Neighbouring(c, d) /\ p[c] # 0 /\ p[c] = p[d]

----------------------------------------------------------------------------
\* Claims

\* C1 (soundness): whenever solve_sudoku returns a grid, by either path,
\* every row, column and sub-block of it holds each value exactly once, and
\* every clue of the input grid is still in its cell.
C1_Soundness ==
    returned = "grid" =>
        ValidGrid(solved_puzzle) /\ KeepsClues(puzzle, solved_puzzle)

\* A grid came back from the search for an input with clues.
C1_Witness ==
    /\ returned = "grid"
    /\ bt_calls = 1
    /\ \E c \in Cells : puzzle[c] # 0

\* C2 (completeness): an input grid with exactly one valid completion gets
\* that completion back, never None and never another grid.
C2_Completeness ==
    pc = "done" =>
        LET sols == Completions(puzzle)
        IN  Cardinality(sols) = 1 =>
                returned = "grid" /\ solved_puzzle \in sols

\* A grid with one completion and empty cells was solved.
C2_Witness ==
    /\ pc = "done"
    /\ returned = "grid"
    /\ \E c \in Cells : puzzle[c] = 0
    /\ Cardinality(Completions(puzzle)) = 1

\* C3 (unsatisfiability detection): when two neighbouring clues hold the same
\* value, ac3 returns False and solve_sudoku returns None, and
\* backtracking_search is never invoked.
C3_DuplicateClues ==
    \/ /\ pc \in {"ac3_returned", "done"} => ~ ac3_result
       /\ pc = "done" => returned = "None"
       /\ pc # "search"
       /\ bt_calls = 0
    \/ ~ DirectDuplicate(puzzle)

\* solve_sudoku returned None for a grid with two equal neighbouring clues.
C3_Witness ==
    /\ DirectDuplicate(puzzle)
    /\ pc = "done"
    /\ returned = "None"
    /\ ~ ac3_result

\* C4: when the input grid has a valid completion, no domain is ever empty
\* during the AC-3 run and ac3 returns True.
C4_SolvableNeverEmpty ==
    \/ /\ \A c \in Cells : domains[c] # {}
       /\ pc # "ac3" => ac3_result
    \/ Completions(puzzle) = {}

\* ac3 returned for a grid with a completion after it pruned a domain.
C4_Witness ==
    /\ pc = "ac3_returned"
    /\ ac3_result
    /\ \E c \in Cells : puzzle[c] = 0 /\ domains[c] # Values
    /\ Completions(puzzle) # {}

\* C5 (no partial result): solve_sudoku returns None or a grid whose cells
\* all hold a value of 1..N; no cell of a returned grid is 0.
C5_NoPartialResult ==
    pc = "done" =>
        \/ returned = "None"
        \/ /\ returned = "grid"
           /\ \A c \in Cells : solved_puzzle[c] \in Values

\* The search handed back an assignment that solve_sudoku made a grid of.
C5_Witness ==
    /\ pc = "done"
    /\ returned = "grid"
    /\ bt_calls = 1
    /\ Assigned(assignment) = Cells

\* Every arc is consistent on the store D: revise would remove nothing.
ArcConsistent(D) ==
    \A xi \in Cells : \A xj \in neighbors[xi] :
        \A x \in D[xi] : \E y \in D[xj] : x # y

\* C6 (idempotence): after ac3 returned True every arc is consistent, and
\* ac3 run again on the store it left removes no value and returns True.
C6_Idempotent ==
    (pc = "ac3_returned" /\ ac3_result) =>
        /\ ArcConsistent(domains)
        /\ LET again == ac3(domains)
           IN  again.returned /\ again.result /\ again.domains = domains

\* ac3 returned True after pruning the domain of an empty cell.
C6_Witness ==
    /\ pc = "ac3_returned"
    /\ ac3_result
    /\ \E c \in Cells : puzzle[c] = 0 /\ domains[c] # Values

\* C7 (confluence): whatever position the worklist is popped at, ac3 returns
\* the flag it returns in FIFO order and, when that is True, leaves every
\* cell the domain it has in FIFO order.
C7_Confluent ==
    pc = "ac3_returned" =>
        LET fifo == ac3(initialize_domains(puzzle))
        IN  /\ fifo.returned
            /\ ac3_result = fifo.result
            /\ ac3_result => domains = fifo.domains

\* A run that popped from the back returned True after other iterations
\* than the FIFO run and after pruning the domain of an empty cell.
C7_Witness ==
    /\ pc = "ac3_returned"
    /\ ac3_result
    /\ pick = <<"back", 1>>
    /\ \E c \in Cells : puzzle[c] = 0 /\ domains[c] # Values
    /\ queue_lengths # ac3(initialize_domains(puzzle)).queue_lengths

\* C8 as claimed: the worklist never holds more than cells * neighbours
\* arcs, also after arcs are re-enqueued.
C8_WorklistBound == Len(queue) <= MaxArcs

\* The number of values removed from the domains since initialization.
RemovedValues ==
    SumOver(Cells,
            [c \in Cells |-> Cardinality(initialize_domains(puzzle)[c])
                                - Cardinality(domains[c])])

\* C8 as amended: the worklist holds at most cells * neighbours arcs plus
\* (neighbours - 1) arcs for every value removed from a domain so far.
C8_WorklistBoundAmended ==
    Len(queue) <= MaxArcs + (NeighboursPerCell - 1) * RemovedValues

\* The worklist holds more arcs than cells * neighbours after a re-enqueue.
C8_Witness == pc = "ac3" /\ Len(queue) > MaxArcs /\ RemovedValues > 0

\* C9 (monotonicity): every step leaves each cell's domain a subset of what
\* it was; no value is ever added to a domain.
C9_DomainsShrink ==
    [][\A c \in Cells : domains'[c] \subseteq domains[c]]_vars

\* A step of the AC-3 run has removed a value from the domain of a cell.
C9_Witness ==
    /\ pc = "ac3"
    /\ queue_lengths # <<>>
    /\ \E c \in Cells :
            domains[c] # initialize_domains(puzzle)[c] /\ domains[c] # {}

\* C10 (stage ordering): the search is invoked only after ac3 returned True
\* with some domain of more than one value; when ac3 returned True with
\* singletons only, that grid is returned without any search; when ac3
\* returned False the search is never invoked.
C10_StageOrdering ==
    /\ pc = "ac3" => bt_calls = 0
    /\ (pc = "search" \/ bt_calls > 0) =>
            ac3_result /\ \E c \in Cells : Cardinality(domains[c]) > 1
    /\ (pc = "done" /\ ac3_result
            /\ \A c \in Cells : Cardinality(domains[c]) = 1) =>
            /\ returned = "grid"
            /\ bt_calls = 0
            /\ \A c \in Cells : domains[c] = {solved_puzzle[c]}
    /\ (pc = "done" /\ ~ ac3_result) => bt_calls = 0

\* Propagation alone solved a grid with empty cells and it was returned.
C10_Witness ==
    /\ pc = "done"
    /\ ac3_result
    /\ returned = "grid"
    /\ bt_calls = 0
    /\ \E c \in Cells : puzzle[c] = 0
    /\ \A c \in Cells : Cardinality(domains[c]) = 1

----------------------------------------------------------------------------
\* Claims about the course of the AC-3 run and of the search

\* ac3 has returned: True with an empty worklist and no empty domain, or
\* False with an empty domain.
Ac3Stopped ==
    /\ pc # "ac3"
    /\ \/ ac3_result /\ queue = <<>> /\ \A c \in Cells : domains[c] # {}
       \/ ~ ac3_result /\ \E c \in Cells : domains[c] = {}

\* The iterations made and the arcs still in the worklist are together at
\* most the initial arcs plus (neighbours - 1) per value removed, so that
\* no run makes more than IterationBound iterations.
Ac3Progress ==
    /\ Len(queue_lengths) + Len(queue)
            <= MaxArcs + (NeighboursPerCell - 1) * RemovedValues
    /\ Len(queue_lengths) <= IterationBound

\* C11 (termination): the AC-3 loop stops, with an empty worklist (success)
\* or an empty domain (failure); arcs are re-enqueued only after a revise
\* that removed a value, so the number of iterations is bounded.
C11_Terminates == Ac3Progress /\ (pc # "ac3" => Ac3Stopped)

\* ac3 returned after more iterations than there were arcs at the start.
C11_Witness ==
    /\ pc = "ac3_returned"
    /\ Len(queue_lengths) > MaxArcs

\* solve_sudoku is one synchronous call: a step that can be taken is taken.
SpecFair == Spec /\ WF_vars(Next)

\* C11 as a liveness property of SpecFair: the loop is eventually left.
C11_EventuallyStops == <>Ac3Stopped

\* Some cell has no candidate left.
SomeDomainEmpty(D) == \E c \in Cells : D[c] = {}

\* C12 (short-circuit on empty domain): the iteration whose revise empties a
\* domain makes ac3 return False at once, appending no arc; from then on no
\* arc is popped, no arc is appended and no domain changes, whatever is left
\* in the worklist.
C12_ShortCircuit ==
    [][ /\ (pc = "ac3" /\ SomeDomainEmpty(domains'))
            => /\ pc' = "ac3_returned"
               /\ ~ ac3_result'
               /\ queue' = Tail(queue)
        /\ SomeDomainEmpty(domains)
            => /\ domains' = domains
               /\ queue' = queue
               /\ queue_lengths' = queue_lengths
               /\ pc' # "ac3" ]_vars

\* ac3 returned False on an empty domain and left arcs in the worklist.
C12_Witness ==
    /\ pc = "done"
    /\ returned = "None"
    /\ ~ ac3_result
    /\ SomeDomainEmpty(domains)
    /\ queue # <<>>

\* The elements of the list q.
Range(q) == {q[k] : k \in 1 .. Len(q)}

\* C13 (re-enqueue rule): an iteration on the arc (Xi, Xj) that removed a
\* value from Xi and left Xi's domain non-empty appends exactly the arcs
\* (Xk, Xi), once each, for the neighbours Xk of Xi other than Xj; an
\* iteration that removed nothing only takes the popped arc off the worklist.
C13_Requeue ==
    [][ (pc = "ac3" /\ queue # <<>>) =>
            LET xi == Head(queue)[1]
                xj == Head(queue)[2]
                kept == Len(queue) - 1
                appended == SubSeq(queue', kept + 1, Len(queue'))
                expected == {<<xk, xi>> : xk \in
                                {c \in Cells : Neighbouring(c, xi)} \ {xj}}
            IN  /\ SubSeq(queue', 1, kept) = Tail(queue)
                /\ IF domains'[xi] # domains[xi] /\ domains'[xi] # {}
                   THEN /\ Range(appended) = expected
                        /\ Len(appended) = Cardinality(expected)
                   ELSE appended = <<>> ]_vars

\* The run had an iteration that appended arcs and one that appended none.
C13_Witness ==
    /\ pc = "ac3_returned"
    /\ \E i \in 1 .. Len(queue_lengths) - 1 :
            queue_lengths[i + 1] = queue_lengths[i] + NeighboursPerCell - 2
    /\ \E i \in 1 .. Len(queue_lengths) - 1 :
            queue_lengths[i + 1] = queue_lengths[i] - 1

\* C14 (revise): revise(Xi, Xj) takes out of Xi's domain exactly the values x
\* for which Xj's domain holds no value other than x, changes no other
\* domain, Xj's included, and returns True exactly when a value was removed.
C14_Revise ==
    [][ (pc = "ac3" /\ queue # <<>>) =>
            LET xi == Head(queue)[1]
                xj == Head(queue)[2]
                r == revise(domains, xi, xj)
                unsupported == {x \in domains[xi] :
                                    \A y \in domains[xj] : y = x}
            IN  /\ domains'[xi] = domains[xi] \ unsupported
                /\ \A c \in Cells \ {xi} : domains'[c] = domains[c]
                /\ r.domains = domains'
                /\ r.revised <=> unsupported # {} ]_vars

\* A revise took some, not all, of the candidates of a cell without a clue.
C14_Witness ==
    /\ pc = "ac3"
    /\ queue_lengths # <<>>
    /\ \E c \in Cells :
            /\ puzzle[c] = 0
            /\ Cardinality(domains[c]) \in 2 .. N - 1

\* C15 (partial-assignment invariant): at every point of the search no two
\* neighbouring cells of the assignment hold the same value, and the value of
\* every assigned cell is in that cell's domain.
C15_PartialAssignment ==
    \A c \in Assigned(assignment) :
        /\ assignment[c] \in domains[c]
        /\ \A d \in Assigned(assignment) :
                Neighbouring(c, d) => assignment[c] # assignment[d]

\* The search stands inside a call, with neighbouring cells assigned and a
\* candidate it has had to reject.
C15_Witness ==
    /\ pc = "search"
    /\ mode = "loop"
    /\ \E c, d \in Assigned(assignment) : Neighbouring(c, d)
    /\ LET top == frames[Len(frames)]
       IN  /\ top.values # <<>>
           /\ ~ is_consistent(top.var, Head(top.values), assignment)

\* C16 (true backtrack): a call of backtrack that returns None leaves the
\* assignment as it was when the call was entered, and whenever a call is
\* about to try a candidate the assignment is the one it was entered with.
C16_TrueBacktrack ==
    [][ /\ (pc = "search" /\ mode = "loop" /\ mode' = "ret")
            => /\ retval' = "None"
               /\ assignment' = frames[Len(frames)].entry
        /\ (pc = "search" /\ mode' = "loop")
            => assignment' = frames'[Len(frames')].entry ]_vars

\* A call two levels down has failed and its caller is back in its loop.
C16_Witness ==
    /\ pc = "search"
    /\ mode = "loop"
    /\ retval = "None"
    /\ removals > 1
    /\ Len(frames) > 1

\* C17 (search leaves the domain store alone): from the call of
\* backtracking_search to its return no cell's domain changes.
C17_DomainsFrozen ==
    [][ (pc = "search" \/ pc' = "search") => domains' = domains ]_vars

\* The search has returned after committing and removing values.
C17_Witness ==
    /\ pc = "done"
    /\ bt_calls = 1
    /\ removals > 0
    /\ ~ is_solved(domains)

\* C18 (MRV): the cell a call of backtrack selects is not in the assignment,
\* no unassigned cell has a smaller domain, and no unassigned cell with a
\* domain of the same size comes before it in row-major order.
C18_MRV ==
    [][ (pc = "search" /\ mode = "call" /\ mode' = "loop") =>
            LET var == frames'[Len(frames')].var
                size(c) == Cardinality(domains[c])
            IN  /\ assignment[var] = 0
                /\ \A w \in Cells :
                        assignment[w] = 0 =>
                            /\ size(var) <= size(w)
                            /\ size(var) = size(w) =>
                                    CellIndex(var) <= CellIndex(w) ]_vars

\* The selected cell is not the first unassigned cell, and an unassigned
\* cell behind it has a domain of the same size.
C18_Witness ==
    /\ pc = "search"
    /\ mode = "loop"
    /\ LET top == frames[Len(frames)]
       IN  /\ \E w \in Cells :
                /\ top.entry[w] = 0
                /\ CellIndex(w) < CellIndex(top.var)
           /\ \E w \in Cells :
                /\ top.entry[w] = 0
                /\ CellIndex(w) > CellIndex(top.var)
                /\ Cardinality(domains[w]) = Cardinality(domains[top.var])

\* The cells from the k-th on can be given values, each from the cell's
\* domain in D and different from the values of its neighbours in g.
RECURSIVE Extends(_, _, _)
Extends(D, g, k) ==
    IF k > N * N THEN TRUE
    ELSE LET c == CellSeq[k]
         IN  \E v \in D[c] :
                /\ \A d \in Cells : Neighbouring(c, d) => g[d] # v
                /\ Extends(D, [g EXCEPT ![c] = v], k + 1)

\* The domain store D admits a complete assignment.
Satisfiable(D) == Extends(D, ZeroGrid, 1)

\* The outermost call of backtrack has returned to backtracking_search.
SearchReturned == pc = "search" /\ mode = "ret" /\ frames = <<>>

\* C19 (search exhaustion): backtracking_search returns None only when the
\* domains admit no complete assignment with neighbouring cells different,
\* and what it returns otherwise is an assignment of every cell.
C19_Exhaustion ==
    SearchReturned =>
        IF retval = "None"
        THEN ~ Satisfiable(domains)
        ELSE \A c \in Cells : assignment[c] # 0

\* The search gave up after taking commitments back, on domains that each
\* still hold a candidate.
C19_Witness ==
    /\ SearchReturned
    /\ retval = "None"
    /\ removals > 0
    /\ \A c \in Cells : domains[c] # {}

\* solve_sudoku is done with a grid that ac3 left satisfiable but unsolved,
\* so that the search was called.
SolvableBySearchDone ==
    /\ pc = "done"
    /\ bt_calls = 1
    /\ Satisfiable(domains)

\* C20 as claimed: every solvable grid that needs search comes back as a
\* valid complete grid, after at least one commitment was removed from the
\* assignment.
C20_BacktrackOccurs ==
    SolvableBySearchDone =>
        /\ returned = "grid"
        /\ ValidGrid(solved_puzzle)
        /\ removals >= 1

\* C20 (amended): every solvable grid that needs search comes back as a
\* valid complete grid that keeps the clues, whether or not a commitment
\* was removed from the assignment on the way.
C20_SearchSolves ==
    SolvableBySearchDone =>
        /\ returned = "grid"
        /\ ValidGrid(solved_puzzle)
        /\ KeepsClues(puzzle, solved_puzzle)

\* The search solved a grid without taking back any commitment.
C20_Witness ==
    /\ SolvableBySearchDone
    /\ returned = "grid"
    /\ removals = 0

====
